---- MODULE Spec2Model ----
(***************************************************************************)
(* Model of roipoly.py: the mouse-event state machine of a RoiPoly session *)
(* and the MultiRoi orchestrator that creates sessions on a shared figure. *)
(*                                                                         *)
(* The figure's canvas delivers every motion / button-press event to each  *)
(* handler that is still connected, in connection order, while the figure  *)
(* is open.  A RoiPoly object is a record of its fields; `sessions` is the *)
(* list of RoiPoly objects constructed so far, `rois` the MultiRoi.rois    *)
(* dictionary (a Python dict: insertion ordered, assignment to an existing *)
(* key replaces the value in place).                                       *)
(***************************************************************************)
EXTENDS Integers, Sequences, FiniteSets, TLC

VARIABLES sessions, rois, title, figOpen, interactive, color_cycle,
          roi_names, last, warned, call

vars == <<sessions, rois, title, figOpen, interactive, color_cycle,
          roi_names, last, warned, call>>

---------------------------------------------------------------------------
(* Bounds of the model. *)

\* cursor coordinates are sampled from 0..MaxCoord
MaxCoord == 1
\* a session records at most MaxPts vertices
MaxPts == 3
\* at most MaxRois RoiPoly objects are created by the add trigger
MaxRois == 3
\* the colour palette has 1..MaxPalette entries
MaxPalette == 2
\* the caller's name list has 1..MaxNames entries (or is None)
MaxNames == 1
\* on the shared figure a session records at most MaxSharedPts vertices
MaxSharedPts == 2
\* images have 1..MaxDim rows and 1..MaxDim columns
MaxDim == 2
\* at most MaxWarn deprecation warnings are emitted
MaxWarn == 2

---------------------------------------------------------------------------
(* Values. *)

\* event.button is None
NoButton == 0
LEFT == 1
MIDDLE == 2
RIGHT == 3

\* self.line is None
NoLine == <<>>

\* xdata / ydata of an event outside every axes
NoCoord == -1

Coords == 0..MaxCoord

\* sampled cursor positions (x, y) inside the axes; x # y apart from the
\* centre, so that exchanging the two coordinates is visible
Points == {<<c, MaxCoord - c>> : c \in Coords}

\* default palette of MultiRoi.__init__
DefaultColors == <<"b", "g", "r", "c", "m", "y", "k">>

\* names a caller may pass as roi_names
CallerNames == <<"A", "B", "C", "D">>

Min(a, b) == IF a < b THEN a ELSE b

Prefix(s, n) == SubSeq(s, 1, Min(n, Len(s)))

\* roi_names is None
NoNames == [given |-> FALSE, names |-> <<>>]

GivenNames(s) == [given |-> TRUE, names |-> s]

Digits == <<"0", "1", "2", "3", "4", "5", "6", "7", "8", "9">>

\* str(n) for a non-negative int
RECURSIVE str(_)
str(n) == IF n < 10 THEN Digits[n + 1]
          ELSE str(n \div 10) \o Digits[(n % 10) + 1]

\* list(zip(xs, ys))
RECURSIVE zip(_, _)
zip(xs, ys) == IF xs = <<>> \/ ys = <<>> THEN <<>>
               ELSE <<<<Head(xs), Head(ys)>>>> \o zip(Tail(xs), Tail(ys))

---------------------------------------------------------------------------
(* Input events. *)

MotionEvents ==
    [inaxes : {TRUE}, button : {NoButton, LEFT, MIDDLE, RIGHT},
     dblclick : {FALSE}, pos : Points]
    \cup
    [inaxes : {FALSE}, button : {NoButton, LEFT, MIDDLE, RIGHT},
     dblclick : {FALSE}, pos : {<<NoCoord, NoCoord>>}]

PressEvents ==
    [inaxes : {TRUE}, button : {LEFT, MIDDLE, RIGHT},
     dblclick : BOOLEAN, pos : Points]
    \cup
    [inaxes : {FALSE}, button : {LEFT, MIDDLE, RIGHT},
     dblclick : BOOLEAN, pos : {<<NoCoord, NoCoord>>}]

\* the events sampled on the figure shared by the sessions of a MultiRoi:
\* one event for each branch of the two handlers
SharedMotionEvents ==
    {e \in MotionEvents : e.button = NoButton}

SharedPressEvents ==
    {e \in PressEvents :
        \/ e.inaxes /\ e.button = LEFT
        \/ e.inaxes /\ e.button = RIGHT /\ ~e.dblclick
        \/ ~e.inaxes /\ e.button = LEFT /\ ~e.dblclick}

\* no API call has been made
NoCall == [fn |-> "", args |-> <<>>, fwd |-> <<>>, via |-> "", poly |-> <<>>,
           points |-> <<>>, drawn |-> <<>>,
           ret |-> [kind |-> "None", shape |-> <<>>]]

\* the event argument of the add / finish button callbacks (unused by them)
NoEvent == [inaxes |-> FALSE, button |-> NoButton, dblclick |-> FALSE,
            pos |-> <<NoCoord, NoCoord>>]

---------------------------------------------------------------------------
(* RoiPoly. *)

\* RoiPoly.__init__: the fields, and both handlers connected.  `nlines`
\* counts the ax.add_line calls this session made; `artist` is the data of
\* the Line2D it put on the axes last (the object self.line refers to
\* until self.line is reset to None).
RoiPoly(color, close_fig) ==
    [start_point |-> <<>>, end_point |-> <<>>, previous_point |-> <<>>,
     x |-> <<>>, y |-> <<>>, line |-> NoLine, completed |-> FALSE,
     color |-> color, close_figure |-> close_fig,
     cid1 |-> TRUE, cid2 |-> TRUE,
     nlines |-> 0, artist |-> NoLine]

get_roi_coordinates(s) == zip(s.x, s.y)

\* the condition under which __motion_notify_callback moves the line
MotionMoves(s, e) ==
    /\ e.inaxes
    /\ (e.button = NoButton \/ e.button = LEFT)
    /\ s.line # NoLine

motion_notify_callback(s, e) ==
    IF MotionMoves(s, e)
    THEN LET d == <<<<s.previous_point[1], e.pos[1]>>,
                    <<s.previous_point[2], e.pos[2]>>>>
         IN [s EXCEPT !.line = d, !.artist = d]
    ELSE s

\* fig.canvas.draw() is called by __motion_notify_callback
MotionDraws(s, e) == MotionMoves(s, e)

\* IsClick without the test of event.dblclick
IsClick_AnyLeft(e) == e.button = LEFT

\* first branch of __button_press_callback: a single left click
IsClick(e) == e.button = LEFT /\ ~e.dblclick

\* the gesture of the second branch: double left click or single right click
IsClosingGesture(e) ==
    \/ (e.button = LEFT /\ e.dblclick)
    \/ (e.button = RIGHT /\ ~e.dblclick)

\* Accepts without the test of event.inaxes
Accepts_AnyAxes(s, e) == IsClick(e)

\* the click branch is taken
Accepts(s, e) == e.inaxes /\ IsClick(e)

\* the closing branch is taken
Closes(s, e) ==
    /\ e.inaxes
    /\ ~IsClick(e)
    /\ IsClosingGesture(e)
    /\ s.line # NoLine

\* the closing branch's test for a single point ROI
IsSinglePoint(s) == Len(s.x) = 1 /\ Len(s.y) = 1

\* the click branch, no line yet: start the polygon
StartPolygon(s, e) ==
    LET px == e.pos[1]
        py == e.pos[2]
        d == <<<<px, px>>, <<py, py>>>>
    IN [s EXCEPT !.line = d, !.artist = d,
                 !.start_point = <<px, py>>,
                 !.previous_point = <<px, py>>,
                 !.x = <<px>>, !.y = <<py>>,
                 !.nlines = @ + 1]

\* AddSegment inserting the vertex at the front of the lists
AddSegment_Prepend(s, e) ==
    LET px == e.pos[1]
        py == e.pos[2]
        d == <<<<s.previous_point[1], px>>, <<s.previous_point[2], py>>>>
    IN [s EXCEPT !.line = d, !.artist = d,
                 !.previous_point = <<px, py>>,
                 !.x = <<px>> \o @, !.y = <<py>> \o @,
                 !.nlines = @ + 1]

\* AddSegment leaving the previous-vertex anchor where it was
AddSegment_StalePrev(s, e) ==
    LET px == e.pos[1]
        py == e.pos[2]
        d == <<<<s.previous_point[1], px>>, <<s.previous_point[2], py>>>>
    IN [s EXCEPT !.line = d, !.artist = d,
                 !.x = Append(@, px), !.y = Append(@, py),
                 !.nlines = @ + 1]

\* the click branch, a line exists: add a segment
AddSegment(s, e) ==
    LET px == e.pos[1]
        py == e.pos[2]
        d == <<<<s.previous_point[1], px>>, <<s.previous_point[2], py>>>>
    IN [s EXCEPT !.line = d, !.artist = d,
                 !.previous_point = <<px, py>>,
                 !.x = Append(@, px), !.y = Append(@, py),
                 !.nlines = @ + 1]

\* the closing branch otherwise: disconnect, draw the closing edge
CloseLoop(s) ==
    LET d == <<<<s.previous_point[1], s.start_point[1]>>,
               <<s.previous_point[2], s.start_point[2]>>>>
    IN [s EXCEPT !.cid1 = FALSE, !.cid2 = FALSE,
                 !.artist = d, !.nlines = @ + 1,
                 !.line = NoLine, !.completed = TRUE]

\* CompleteSinglePoint drawing the closing edge like the general case
CompleteSinglePoint_Edge(s) ==
    [CloseLoop(s) EXCEPT !.cid1 = TRUE, !.cid2 = TRUE, !.line = s.line]

\* the closing branch with one recorded point
CompleteSinglePoint(s) == [s EXCEPT !.completed = TRUE]

button_press_callback(s, e) ==
    IF Accepts(s, e)
    THEN IF s.line = NoLine THEN StartPolygon(s, e) ELSE AddSegment(s, e)
    ELSE IF Closes(s, e)
    THEN IF IsSinglePoint(s) THEN CompleteSinglePoint(s) ELSE CloseLoop(s)
    ELSE s

\* fig.canvas.draw() is called by __button_press_callback
PressDraws(s, e) ==
    \/ Accepts(s, e)
    \/ (Closes(s, e) /\ ~IsSinglePoint(s))

\* PressClosesFigure without the test of sys.flags.interactive
PressClosesFigure_Always(s, e, inter) ==
    /\ Closes(s, e)
    /\ s.close_figure

\* plt.close(self.fig) is called by __button_press_callback
PressClosesFigure(s, e, inter) ==
    /\ Closes(s, e)
    /\ ~inter
    /\ s.close_figure

---------------------------------------------------------------------------
(* The canvas: dispatch of an event to the connected handlers. *)

Live1(s) == s.cid1
Live2(s) == s.cid2

\* the record of the operation handled last: which handler ran, the event
\* it was given (without the cursor position) and whether it asked for a
\* redraw (fig.canvas.draw() / plt.draw())
Op(name, e, drew) ==
    [op |-> name, inaxes |-> e.inaxes, button |-> e.button,
     dblclick |-> e.dblclick, drew |-> drew]

\* a motion_notify_event is processed by every connected handler
Motion(e) ==
    /\ figOpen
    /\ sessions' = [i \in DOMAIN sessions |->
                      IF Live1(sessions[i])
                      THEN motion_notify_callback(sessions[i], e)
                      ELSE sessions[i]]
    /\ last' = Op("motion", e,
                  \E i \in DOMAIN sessions :
                      Live1(sessions[i]) /\ MotionDraws(sessions[i], e))
    /\ UNCHANGED <<rois, title, figOpen, interactive, color_cycle, roi_names,
                   warned, call>>

\* a button_press_event is processed by every connected handler
Press(e) ==
    /\ figOpen
    /\ sessions' = [i \in DOMAIN sessions |->
                      IF Live2(sessions[i])
                      THEN button_press_callback(sessions[i], e)
                      ELSE sessions[i]]
    /\ figOpen' = ~(\E i \in DOMAIN sessions :
                      /\ Live2(sessions[i])
                      /\ PressClosesFigure(sessions[i], e, interactive))
    /\ last' = Op("press", e,
                  \E i \in DOMAIN sessions :
                      Live2(sessions[i]) /\ PressDraws(sessions[i], e))
    /\ UNCHANGED <<rois, title, interactive, color_cycle, roi_names,
                   warned, call>>

\* no session that would record the click of e holds n vertices yet
Fits(e, n) ==
    \A i \in DOMAIN sessions :
        (Live2(sessions[i]) /\ Accepts(sessions[i], e))
            => Len(sessions[i].x) < n

---------------------------------------------------------------------------
(* A single RoiPoly session on its own figure. *)

InitSingle ==
    /\ \E cf \in BOOLEAN : sessions = <<RoiPoly("b", cf)>>
    /\ rois = <<>>
    /\ title = ""
    /\ figOpen = TRUE
    /\ interactive \in BOOLEAN
    /\ color_cycle = DefaultColors
    /\ roi_names = NoNames
    /\ last = Op("init", NoEvent, FALSE)
    /\ warned = <<>>
    /\ call = NoCall

NextSingle ==
    \/ \E e \in MotionEvents : Motion(e)
    \/ \E e \in PressEvents : Fits(e, MaxPts) /\ Press(e)

SpecSingle == InitSingle /\ [][NextSingle]_vars

---------------------------------------------------------------------------
(* MultiRoi. *)

\* the rois dictionary: a sequence of [name, roi] entries in insertion
\* order, roi being the index of the RoiPoly object in `sessions`
HasKey(d, k) == \E i \in DOMAIN d : d[i].name = k

KeyIndex(d, k) == CHOOSE i \in DOMAIN d : d[i].name = k

\* d[k] = v
DictSet(d, k, v) ==
    IF HasKey(d, k)
    THEN [d EXCEPT ![KeyIndex(d, k)] = [name |-> k, roi |-> v]]
    ELSE Append(d, [name |-> k, roi |-> v])

\* InProgress with any() in place of all()
InProgress_Any(d, ss) ==
    /\ d # <<>>
    /\ ~(\E i \in DOMAIN d : ss[d[i].roi].completed)

\* InProgress looking at the first session only
InProgress_First(d, ss) ==
    /\ d # <<>>
    /\ ~ss[d[1].roi].completed

\* the guard of add: some session of the dictionary is not completed
InProgress(d, ss) ==
    /\ d # <<>>
    /\ ~(\A i \in DOMAIN d : ss[d[i].roi].completed)

\* idx = count % len(self.color_cycle)
ColorIndex(count, cycle) == count % Len(cycle)

\* the name add gives to the session it creates
RoiName(count, names, cycle) ==
    LET idx == ColorIndex(count, cycle)
    IN IF names.given /\ idx < Len(names.names)
       THEN names.names[idx + 1]
       ELSE str(count + 1)

\* "Draw ROI '{}'".format(roi_name)
DrawTitle(name) == "Draw ROI '" \o name \o "'"

\* A RoiPoly object that the dictionary no longer refers to is reclaimed;
\* the canvas holds its handlers by weak reference, so they go with it.
Reclaim(ss, d) ==
    [i \in DOMAIN ss |->
        IF \E j \in DOMAIN d : d[j].roi = i
        THEN ss[i]
        ELSE [ss[i] EXCEPT !.cid1 = FALSE, !.cid2 = FALSE]]

\* NewSharedRoi with the default close_fig=True
NewSharedRoi_Default(color) == RoiPoly(color, TRUE)

\* the RoiPoly add constructs: close_fig=False, show_fig=False
NewSharedRoi(color) == RoiPoly(color, FALSE)

\* MultiRoi.add, the early return
AddIgnored ==
    /\ figOpen
    /\ InProgress(rois, sessions)
    /\ last' = Op("add", NoEvent, FALSE)
    /\ UNCHANGED <<sessions, rois, title, figOpen, interactive, color_cycle,
                   roi_names, warned, call>>

\* MultiRoi.add, a new session is created
AddAccepted ==
    /\ figOpen
    /\ ~InProgress(rois, sessions)
    /\ Len(sessions) < MaxRois
    /\ LET count == Len(rois)
           idx == ColorIndex(count, color_cycle)
           roi_name == RoiName(count, roi_names, color_cycle)
           roi == NewSharedRoi(color_cycle[idx + 1])
           d == DictSet(rois, roi_name, Len(sessions) + 1)
       IN /\ title' = DrawTitle(roi_name)
          /\ rois' = d
          /\ sessions' = Reclaim(Append(sessions, roi), d)
    /\ last' = Op("add", NoEvent, TRUE)
    /\ UNCHANGED <<figOpen, interactive, color_cycle, roi_names, warned,
                   call>>

add == AddIgnored \/ AddAccepted

\* finish closing the figure only once every session is completed
finish_WhenDone ==
    /\ figOpen
    /\ figOpen' = InProgress(rois, sessions)
    /\ last' = Op("finish", NoEvent, FALSE)
    /\ UNCHANGED <<sessions, rois, title, interactive, color_cycle, roi_names,
                   warned, call>>

\* MultiRoi.finish
finish ==
    /\ figOpen
    /\ figOpen' = FALSE
    /\ last' = Op("finish", NoEvent, FALSE)
    /\ UNCHANGED <<sessions, rois, title, interactive, color_cycle, roi_names,
                   warned, call>>

\* MultiRoi.__init__: no session yet, the buttons are shown
InitMulti ==
    /\ sessions = <<>>
    /\ rois = <<>>
    /\ title = ""
    /\ figOpen = TRUE
    /\ interactive \in BOOLEAN
    /\ color_cycle \in {Prefix(DefaultColors, n) : n \in 1..MaxPalette}
    /\ roi_names \in {NoNames}
                     \cup {GivenNames(Prefix(CallerNames, n)) : n \in 1..MaxNames}
    /\ last = Op("init", NoEvent, FALSE)
    /\ warned = <<>>
    /\ call = NoCall

NextMulti ==
    \/ add
    \/ finish
    \/ \E e \in SharedMotionEvents : Motion(e)
    \/ \E e \in SharedPressEvents : Fits(e, MaxSharedPts) /\ Press(e)

SpecMulti == InitMulti /\ [][NextMulti]_vars

---------------------------------------------------------------------------
(* The public API of a session: masks, display, and the deprecated names. *)

\* roicolor=None
NoRoicolor == ""

\* a function returned None
None == [kind |-> "None", shape |-> <<>>]

\* list(reversed(xs))
reversed(xs) == [i \in 1..Len(xs) |-> xs[Len(xs) + 1 - i]]

\* warnings.warn(message, DeprecationWarning) under the default filter of
\* the interpreter outside __main__ replaced by "once per message"
deprecation_Once(log, message) ==
    IF \E i \in DOMAIN log : log[i] = message THEN log
    ELSE Append(log, message)

\* warnings.warn(message, DeprecationWarning) under the filter installed at
\* import, simplefilter('always', DeprecationWarning): the warning is
\* emitted at every call; `log` is the list of the warnings emitted
deprecation(log, message) == Append(log, message)

\* [(x[0], y[0])] + list(zip(reversed(x[1:]), reversed(y[1:])))
poly_verts_Rest(s) ==
    <<<<s.x[1], s.y[1]>>>> \o zip(reversed(Tail(s.x)), reversed(Tail(s.y)))

\* the vertex list of get_mask
poly_verts(s) ==
    <<<<s.x[1], s.y[1]>>>> \o zip(reversed(s.x), reversed(s.y))

\* np.vstack((x, y)).T of the flattened np.meshgrid(arange(nx), arange(ny)):
\* the points (col, row), rows first
grid(ny, nx) ==
    [k \in 1..(ny * nx) |-> <<(k - 1) % nx, (k - 1) \div nx>>]

\* the outcome of a call: the function that ran, what it handed to
\* MplPath(...).contains_points(...), what it put on the axes, and what it
\* returned (a mask is the reshaped answer of contains_points)

\* get_mask(image) of a session with at least one vertex; of the image
\* only its shape (ny, nx) is used
get_mask(s, image) ==
    [via |-> "get_mask", poly |-> poly_verts(s),
     points |-> grid(image[1], image[2]), drawn |-> <<>>,
     ret |-> [kind |-> "mask", shape |-> image]]

\* display_roi(): a Line2D through the vertices and back to the first
display_roi(s, kwargs) ==
    [via |-> "display_roi", poly |-> <<>>, points |-> <<>>,
     drawn |-> <<s.x \o <<s.x[1]>>, s.y \o <<s.y[1]>>>>,
     ret |-> None]

\* display_mean(image): get_mean_and_std calls get_mask; the text is put
\* at the first vertex
display_mean(s, image) ==
    [get_mask(s, image) EXCEPT !.via = "display_mean",
                               !.drawn = <<<<s.x[1]>>, <<s.y[1]>>>>,
                               !.ret = None]

\* the record of a call of `fn` with `args` that passed `fwd` on and ran
\* as outcome `r`
Returned(fn, args, fwd, r) ==
    [fn |-> fn, args |-> args, fwd |-> fwd, via |-> r.via, poly |-> r.poly,
     points |-> r.points, drawn |-> r.drawn, ret |-> r.ret]

\* sampled image shapes (ny, nx): 1..MaxDim rows of MaxDim columns
Images == {<<ny, MaxDim>> : ny \in 1..MaxDim}

\* a call of a method on the session; it leaves the session as it is
ApiCall(fn, args, fwd, r, log) ==
    /\ sessions # <<>>
    /\ call' = Returned(fn, args, fwd, r)
    /\ warned' = log
    /\ last' = Op("call", NoEvent, FALSE)
    /\ UNCHANGED <<sessions, rois, title, figOpen, interactive, color_cycle,
                   roi_names>>

CallGetMask(image) ==
    ApiCall("get_mask", image, image, get_mask(sessions[1], image), warned)

CallDisplayRoi ==
    ApiCall("display_roi", <<>>, <<>>, display_roi(sessions[1], <<>>), warned)

CallDisplayMean(image) ==
    ApiCall("display_mean", image, image, display_mean(sessions[1], image),
            warned)

\* the deprecated method names
displayMean(image) ==
    /\ Len(warned) < MaxWarn
    /\ ApiCall("displayMean", image, image, display_mean(sessions[1], image),
               deprecation(warned,
                           "Use 'display_mean' instead of 'displayMean'!"))

getMask(image) ==
    /\ Len(warned) < MaxWarn
    /\ ApiCall("getMask", image, image, get_mask(sessions[1], image),
               deprecation(warned, "Use 'get_mask()' instead of 'getMask'!"))

displayROI ==
    /\ Len(warned) < MaxWarn
    /\ ApiCall("displayROI", <<>>, <<>>, display_roi(sessions[1], <<>>),
               deprecation(warned,
                           "Use 'display_roi' instead of 'displayROI'!"))

\* RoiPoly.__init__: the roicolor argument
init_warned(log, roicolor) ==
    IF roicolor # NoRoicolor
    THEN deprecation(log, "Use 'color' instead of 'roicolor'!")
    ELSE log

init_color(color, roicolor) ==
    IF roicolor # NoRoicolor THEN roicolor ELSE color

\* plt.show(block=True) in RoiPoly.__init__: the constructor returns after
\* the user has clicked at the positions `clicks`, made the closing gesture
\* and the figure was closed
LeftClick(p) ==
    [inaxes |-> TRUE, button |-> LEFT, dblclick |-> FALSE, pos |-> p]

RightClick(p) ==
    [inaxes |-> TRUE, button |-> RIGHT, dblclick |-> FALSE, pos |-> p]

RECURSIVE Drawn(_, _)
Drawn(s, clicks) ==
    IF clicks = <<>> THEN button_press_callback(s, RightClick(s.previous_point))
    ELSE Drawn(button_press_callback(s, LeftClick(Head(clicks))), Tail(clicks))

\* the click sequences sampled: 1..MaxPts positions
Clicks == UNION {[1..n -> Points] : n \in 1..MaxPts}

\* the construction of the session of the run, with the default colour
\* and show_fig / close_fig
Construct(fn, roicolor, clicks, log) ==
    /\ sessions = <<>>
    /\ sessions' = <<Drawn(RoiPoly(init_color("b", roicolor), TRUE), clicks)>>
    /\ figOpen' = FALSE
    /\ warned' = init_warned(log, roicolor)
    /\ call' = [fn |-> fn, args |-> <<roicolor>>, fwd |-> <<roicolor>>,
                via |-> "RoiPoly", poly |-> <<>>, points |-> <<>>,
                drawn |-> <<>>, ret |-> [kind |-> "RoiPoly", shape |-> <<>>]]
    /\ last' = Op("call", NoEvent, FALSE)
    /\ UNCHANGED <<rois, title, interactive, color_cycle, roi_names>>

NewRoiPoly(roicolor, clicks) ==
    Construct("RoiPoly", roicolor, clicks, warned)

\* the deprecated constructor function
roipoly(roicolor, clicks) ==
    Construct("roipoly", roicolor, clicks,
              deprecation(warned, "Import 'RoiPoly' instead of 'roipoly'!"))

InitApi ==
    /\ sessions = <<>>
    /\ rois = <<>>
    /\ title = ""
    /\ figOpen = FALSE
    /\ interactive = FALSE
    /\ color_cycle = DefaultColors
    /\ roi_names = NoNames
    /\ last = Op("init", NoEvent, FALSE)
    /\ warned = <<>>
    /\ call = NoCall

NextApi ==
    \/ \E rc \in {NoRoicolor, "r"}, cl \in Clicks : NewRoiPoly(rc, cl)
    \/ \E rc \in {NoRoicolor, "r"}, cl \in Clicks : roipoly(rc, cl)
    \/ \E im \in Images : CallGetMask(im)
    \/ \E im \in Images : CallDisplayMean(im)
    \/ CallDisplayRoi
    \/ \E im \in Images : getMask(im)
    \/ \E im \in Images : displayMean(im)
    \/ displayROI

SpecApi == InitApi /\ [][NextApi]_vars

---------------------------------------------------------------------------
(* Vocabulary of the properties. *)

\* the session of SpecSingle
TheRoi == sessions[1]

Coordinates(s) == get_roi_coordinates(s)

\* a primary-button press that is not a double click, inside the axes
PrimaryClick(e) == e.inaxes /\ e.button = LEFT /\ ~e.dblclick

\* a primary double click or a secondary single click, inside the axes
ClosingClick(e) ==
    /\ e.inaxes
    /\ \/ (e.button = LEFT /\ e.dblclick)
       \/ (e.button = RIGHT /\ ~e.dblclick)

\* the step is the dispatch of the button press e
Pressed(e) ==
    /\ last'.op = "press"
    /\ last'.inaxes = e.inaxes
    /\ last'.button = e.button
    /\ last'.dblclick = e.dblclick
    /\ Press(e)

\* the sessions of the rois mapping that are not completed
Incomplete == {i \in DOMAIN rois : ~sessions[rois[i].roi].completed}

\* the name the k-th accepted add trigger (k from 0) is to use
ExpectedName(k) ==
    IF roi_names.given /\ k < Len(roi_names.names)
    THEN roi_names.names[k + 1]
    ELSE str(k + 1)

---------------------------------------------------------------------------
(* C1 -- C10 *)

\* C1: once a session's completed flag is true, no event changes the
\* coordinate sequence get_roi_coordinates returns.
C1_CompletedIsImmutable ==
    [][\A i \in DOMAIN sessions :
          sessions[i].completed
              => Coordinates(sessions'[i]) = Coordinates(sessions[i])]_vars

\* C2: on a session that is not completed, every accepted click appends its
\* position to the coordinate sequence and leaves the session not
\* completed, and a closing gesture on n >= 3 recorded clicks sets completed
\* and returns exactly those n pairs in click order.
C2_ClicksThenClose ==
    [][\A e \in PressEvents :
          Pressed(e) =>
              /\ (PrimaryClick(e) /\ ~TheRoi.completed)
                     => /\ Coordinates(TheRoi') =
                              Append(Coordinates(TheRoi), e.pos)
                        /\ ~TheRoi'.completed
              /\ (ClosingClick(e) /\ ~TheRoi.completed /\ Len(TheRoi.x) >= 3)
                     => /\ TheRoi'.completed
                        /\ Coordinates(TheRoi') = Coordinates(TheRoi)
                        /\ Len(Coordinates(TheRoi')) = Len(TheRoi.x)]_vars

C2_Witness ==
    /\ TheRoi.completed
    /\ Len(Coordinates(TheRoi)) >= 3
    /\ last.op = "press"
    /\ ClosingClick(last)

\* C3: the first accepted click records exactly its position, and a closing
\* gesture on that one vertex sets completed, keeps the one pair and draws
\* no closing edge (no line is added or changed, no redraw is requested).
C3_SinglePoint ==
    [][\A e \in PressEvents :
          Pressed(e) =>
              /\ (PrimaryClick(e) /\ TheRoi.x = <<>>)
                     => Coordinates(TheRoi') = <<e.pos>>
              /\ (ClosingClick(e) /\ ~TheRoi.completed /\ Len(TheRoi.x) = 1)
                     => /\ TheRoi'.completed
                        /\ Coordinates(TheRoi') = Coordinates(TheRoi)
                        /\ Len(Coordinates(TheRoi')) = 1
                        /\ TheRoi'.nlines = TheRoi.nlines
                        /\ TheRoi'.artist = TheRoi.artist
                        /\ ~last'.drew]_vars

C3_Witness ==
    /\ TheRoi.completed
    /\ Len(Coordinates(TheRoi)) = 1
    /\ TheRoi.nlines = 1
    /\ last.op = "press"
    /\ ClosingClick(last)

\* C4: an add trigger that fires while a session of the collection is not
\* completed changes neither the rois mapping, nor the title, nor any
\* session (its handlers included).
C4_AddIgnored ==
    [][(last'.op = "add" /\ Incomplete # {})
          => UNCHANGED <<rois, title, sessions>>]_vars

C4_Witness ==
    /\ last.op = "add"
    /\ ~last.drew
    /\ Incomplete # {}
    /\ Len(rois) = 1
    /\ Len(sessions) = 1

\* C5: the k-th accepted add trigger (k from 0) stores the session it
\* creates under N[k] when k < len(N), and under str(k + 1) otherwise.
C5_NameByPosition ==
    [][(last'.op = "add" /\ Len(sessions') = Len(sessions) + 1)
          => \E j \in DOMAIN rois' :
                /\ rois'[j].roi = Len(sessions')
                /\ rois'[j].name = ExpectedName(Len(sessions))]_vars

\* C6: at most one session of the rois mapping is not completed.
C6_AtMostOneInProgress == Cardinality(Incomplete) <= 1

C6_Witness ==
    /\ Len(rois) >= 2
    /\ Cardinality(Incomplete) = 1
    /\ \E i \in DOMAIN rois : sessions[rois[i].roi].completed

\* C7: the finish trigger closes the figure and changes neither the rois
\* mapping nor any session.
C7_FinishCloses ==
    [][last'.op = "finish"
          => (~figOpen' /\ UNCHANGED <<rois, sessions>>)]_vars

C7_Witness ==
    /\ last.op = "finish"
    /\ ~figOpen
    /\ Incomplete # {}

\* C8: the figure of a single session goes from open to closed only in the
\* handling of a closing gesture on a session that has a vertex, and such a
\* gesture closes it exactly when the process is not interactive and the
\* session's close_figure flag is set.
C8_AutoClose ==
    [][/\ (figOpen /\ ~figOpen')
             => /\ last'.op = "press"
                /\ ClosingClick(last')
                /\ TheRoi.x # <<>>
       /\ (last'.op = "press" /\ ClosingClick(last') /\ TheRoi.x # <<>>)
             => (~figOpen' <=> (~interactive /\ TheRoi.close_figure))]_vars

C8_Witness ==
    /\ ~figOpen
    /\ TheRoi.completed
    /\ ~interactive
    /\ TheRoi.close_figure

\* C9: a button press outside the session's axes changes no field of the
\* session (vertices, anchors, line, completed flag, handlers) and leaves
\* the figure as it is.
C9_OutsideIgnored ==
    [][(last'.op = "press" /\ ~last'.inaxes)
          => UNCHANGED <<sessions, figOpen>>]_vars

C9_Witness ==
    /\ last.op = "press"
    /\ ~last.inaxes
    /\ TheRoi.x # <<>>
    /\ ~TheRoi.completed

\* C10: a pointer move on a session that is EMPTY or COMPLETED, or with the
\* cursor outside the axes, changes neither the point list nor the line and
\* requests no redraw.
C10_MotionNoOp ==
    [][(/\ last'.op = "motion"
        /\ \/ TheRoi.x = <<>>
           \/ TheRoi.completed
           \/ ~last'.inaxes)
          => /\ Coordinates(TheRoi') = Coordinates(TheRoi)
             /\ TheRoi'.line = TheRoi.line
             /\ TheRoi'.artist = TheRoi.artist
             /\ ~last'.drew]_vars

---------------------------------------------------------------------------
(* C11 -- C20 *)

\* the session the i-th entry of the rois mapping refers to
RoiAt(i) == sessions[rois[i].roi]

\* C11: whenever a session's completed flag is true, both of its handlers
\* are disconnected from the canvas.
C11_CompletedIsDetached ==
    \A i \in DOMAIN sessions :
        sessions[i].completed => (~sessions[i].cid1 /\ ~sessions[i].cid2)

\* C14: iterating the rois mapping visits the sessions in the order of
\* their creation.
C14_CreationOrder ==
    \A i, j \in DOMAIN rois : i < j => rois[i].roi < rois[j].roi

\* C15: on the shared figure no button press (closing gestures included)
\* closes the figure, whether the process is interactive or not; the figure
\* goes from open to closed only through the finish trigger.
C15_OnlyFinishCloses ==
    [][/\ (figOpen /\ ~figOpen') => last'.op = "finish"
       /\ last'.op = "press" => figOpen']_vars

C15_Witness ==
    /\ last.op = "press"
    /\ ClosingClick(last)
    /\ ~interactive
    /\ figOpen
    /\ \E i \in DOMAIN rois :
          /\ RoiAt(i).completed
          /\ ~RoiAt(i).cid2
          /\ Len(RoiAt(i).x) >= 2

\* C16: while no vertex is recorded, a button press other than a primary
\* single click inside the axes changes nothing: the point list stays
\* empty, completed false, the handlers connected and the figure open.
C16_EmptyIgnores ==
    [][(last'.op = "press" /\ TheRoi.x = <<>> /\ ~PrimaryClick(last'))
          => /\ UNCHANGED <<sessions, figOpen>>
             /\ TheRoi'.x = <<>> /\ TheRoi'.y = <<>>
             /\ ~TheRoi'.completed
             /\ TheRoi'.cid1 /\ TheRoi'.cid2
             /\ figOpen']_vars

C16_Witness ==
    /\ last.op = "press"
    /\ ClosingClick(last)
    /\ TheRoi.x = <<>>
    /\ figOpen

\* C18: a button press changes the coordinate sequence of at most one
\* session of the rois mapping, and never that of a completed one.
C18_OneSessionPerPress ==
    [][last'.op = "press"
          => LET changed == {i \in DOMAIN rois :
                               Coordinates(sessions'[rois[i].roi])
                                   # Coordinates(RoiAt(i))}
             IN /\ Cardinality(changed) <= 1
                /\ \A i \in changed : ~RoiAt(i).completed]_vars

\* C19: with at least one vertex recorded, x and y have the same length,
\* the start anchor is the first vertex and the previous-vertex anchor the
\* last one; the closing edge of a closed polygon runs from the last vertex
\* to the first.
C19_Anchors ==
    TheRoi.x # <<>> =>
        LET n == Len(TheRoi.x)
        IN /\ Len(TheRoi.y) = n
           /\ TheRoi.start_point = <<TheRoi.x[1], TheRoi.y[1]>>
           /\ TheRoi.previous_point = <<TheRoi.x[n], TheRoi.y[n]>>
           /\ (TheRoi.completed /\ ~TheRoi.cid2)
                 => TheRoi.artist = <<<<TheRoi.x[n], TheRoi.x[1]>>,
                                      <<TheRoi.y[n], TheRoi.y[1]>>>>

C19_Witness ==
    /\ Len(TheRoi.x) >= 3
    /\ TheRoi.completed
    /\ ~TheRoi.cid2
    /\ TheRoi.x[1] # TheRoi.x[Len(TheRoi.x)]

\* C20: every accepted add trigger stores its session under a key that was
\* not present, so after m accepted add triggers rois has m entries.
C20_FreshKey ==
    [][(last'.op = "add" /\ Len(sessions') = Len(sessions) + 1)
          => /\ Len(rois') = Len(rois) + 1
             /\ Len(rois') = Len(sessions')]_vars

\* the deprecated names and, for each, the name that replaces it
Replacement ==
    [getMask |-> "get_mask", displayMean |-> "display_mean",
     displayROI |-> "display_roi", roipoly |-> "RoiPoly"]

\* the migration warning of each deprecated name
Migration ==
    [getMask |-> "Use 'get_mask()' instead of 'getMask'!",
     displayMean |-> "Use 'display_mean' instead of 'displayMean'!",
     displayROI |-> "Use 'display_roi' instead of 'displayROI'!",
     roipoly |-> "Import 'RoiPoly' instead of 'roipoly'!"]

RoicolorWarning == "Use 'color' instead of 'roicolor'!"

\* the call recorded in c used a deprecated name / the roicolor argument
IsAlias(c) == c.fn \in DOMAIN Replacement
UsesRoicolor(c) == c.via = "RoiPoly" /\ c.args[1] # ""

\* the warnings the call recorded in c is to emit, in order
Due(c) ==
    (IF IsAlias(c) THEN <<Migration[c.fn]>> ELSE <<>>)
    \o (IF UsesRoicolor(c) THEN <<RoicolorWarning>> ELSE <<>>)

\* the call recorded in c ran the replacement on the caller's arguments and
\* returned what the replacement returns
Forwards(c) ==
    /\ IsAlias(c) => c.via = Replacement[c.fn]
    /\ c.fwd = c.args
    /\ c.ret.kind = CASE c.via = "get_mask" -> "mask"
                      [] c.via = "RoiPoly" -> "RoiPoly"
                      [] OTHER -> "None"
    /\ c.via = "get_mask" => c.ret.shape = c.args
    /\ UsesRoicolor(c) => TheRoi'.color = c.args[1]

Seen(log, m) == \E i \in DOMAIN log : log[i] = m

\* the messages of ms that the log does not hold yet
RECURSIVE Unseen(_, _)
Unseen(log, ms) ==
    IF ms = <<>> THEN <<>>
    ELSE IF Seen(log, Head(ms)) THEN Unseen(log, Tail(ms))
         ELSE <<Head(ms)>> \o Unseen(Append(log, Head(ms)), Tail(ms))

\* C13 (as stated): each deprecated alias forwards to its replacement with
\* the same arguments and returns its result, and its migration warning is
\* emitted once only: a second call of the alias emits no further warning
C13_OneTimeWarning ==
    [][(last'.op = "call" /\ (IsAlias(call') \/ UsesRoicolor(call')))
          => /\ Forwards(call')
             /\ warned' = warned \o Unseen(warned, Due(call'))]_vars

\* C13 (amended): each deprecated alias forwards to its replacement with
\* the same arguments and returns its result, and emits its migration
\* warning at every call, the second call of the alias included; a call of
\* a current name without roicolor emits nothing
C13_WarningAtEveryCall ==
    [][last'.op = "call"
          => /\ Forwards(call')
             /\ warned' = warned \o Due(call')]_vars

\* an alias was called a second time and its warning is in the log twice
C13_Witness ==
    /\ last.op = "call"
    /\ IsAlias(call)
    /\ Len(warned) = 2
    /\ warned[1] = Migration[call.fn]
    /\ warned[2] = Migration[call.fn]

\* C17 (as stated): the vertex list handed to the point-in-polygon test is
\* the first vertex followed by the remaining vertices reversed: the n
\* elements v0, v(n-1), ..., v1, no vertex repeated
C17_FirstThenRest ==
    [][(last'.op = "call" /\ call'.poly # <<>>)
          => LET n == Len(TheRoi.x)
             IN /\ Len(call'.poly) = n
                /\ call'.poly[1] = <<TheRoi.x[1], TheRoi.y[1]>>
                /\ \A k \in 1..(n - 1) :
                      call'.poly[k + 1]
                          = <<TheRoi.x[n + 1 - k], TheRoi.y[n + 1 - k]>>]_vars

\* C17 (amended): the vertex list handed to the point-in-polygon test is
\* the first vertex followed by all the vertices reversed: the n + 1
\* elements v0, v(n-1), ..., v1, v0, the first vertex standing at both ends
C17_FirstThenAllReversed ==
    [][(last'.op = "call" /\ call'.poly # <<>>)
          => LET n == Len(TheRoi.x)
             IN /\ Len(call'.poly) = n + 1
                /\ call'.poly[1] = <<TheRoi.x[1], TheRoi.y[1]>>
                /\ \A k \in 1..n :
                      call'.poly[k + 1]
                          = <<TheRoi.x[n + 1 - k], TheRoi.y[n + 1 - k]>>]_vars

\* get_mask ran on a session of three vertices, the second not the first
C17_Witness ==
    /\ last.op = "call"
    /\ call.via = "get_mask"
    /\ Len(TheRoi.x) = 3
    /\ Len(call.poly) = 4
    /\ call.poly[4] = call.poly[1]
    /\ call.poly[3] # call.poly[1]

=============================================================================
